---- MODULE Spec2Model ----
(***************************************************************************)
(* Model of src/main.py: a client that asks a remote builder service for   *)
(* an unsigned transaction, signs it locally and posts it to the broadcast *)
(* endpoint, plus three read-only queries and the associated-token-account *)
(* helper that talks to the chain through the RPC client.                  *)
(*                                                                         *)
(* Byte strings and text are sequences of naturals.  Keys are KeyLen bytes *)
(* and signatures SigLen bytes (32 and 64 on the real chain); the wire     *)
(* layout of a transaction keeps the real order: signature count,          *)
(* signatures, message header, account keys, payload.                      *)
(***************************************************************************)
EXTENDS Integers, Sequences, FiniteSets, TLC

\* ------------------------------------------------------------------ bounds

\* Number of operations the caller invokes in one behaviour.
MaxCalls == 3

\* ------------------------------------------------------- sizes of the model

\* Bytes of a signature in the model's wire format.
SigLen == 2
\* Bytes of a public key in the model's wire format.
KeyLen == 1

\* ------------------------------------------------------- sequence helpers

Range(s) == {s[i] : i \in DOMAIN s}

Slice(s, a, b) == IF a > b THEN <<>> ELSE SubSeq(s, a, b)

\* s contains t as a contiguous run.
Contains(s, t) ==
    \E i \in 1..(Len(s) - Len(t) + 1) : SubSeq(s, i, i + Len(t) - 1) = t

RECURSIVE Zeros(_)
Zeros(n) == IF n = 0 THEN <<>> ELSE <<0>> \o Zeros(n - 1)

\* ----------------------------------------------------------------- base64
\* Characters are their index in the base64 alphabet; 64 is the pad "=".

B64Pad == 64

B64Group(b) ==
    LET n  == Len(b)
        b1 == b[1]
        b2 == IF n >= 2 THEN b[2] ELSE 0
        b3 == IF n >= 3 THEN b[3] ELSE 0
        c1 == b1 \div 4
        c2 == (b1 % 4) * 16 + (b2 \div 16)
        c3 == (b2 % 16) * 4 + (b3 \div 64)
        c4 == b3 % 64
    IN  IF n = 1 THEN <<c1, c2, B64Pad, B64Pad>>
        ELSE IF n = 2 THEN <<c1, c2, c3, B64Pad>>
        ELSE <<c1, c2, c3, c4>>

RECURSIVE b64encode(_)
b64encode(bytes) ==
    IF bytes = <<>> THEN <<>>
    ELSE IF Len(bytes) <= 3 THEN B64Group(bytes)
    ELSE B64Group(SubSeq(bytes, 1, 3)) \o b64encode(SubSeq(bytes, 4, Len(bytes)))

\* One group of four characters back to 1..3 bytes.
B64Ungroup(c) ==
    LET v3 == IF c[3] = B64Pad THEN 0 ELSE c[3]
        v4 == IF c[4] = B64Pad THEN 0 ELSE c[4]
        b1 == c[1] * 4 + (c[2] \div 16)
        b2 == (c[2] % 16) * 16 + (v3 \div 4)
        b3 == (v3 % 4) * 64 + v4
    IN  IF c[3] = B64Pad THEN <<b1>>
        ELSE IF c[4] = B64Pad THEN <<b1, b2>>
        ELSE <<b1, b2, b3>>

RECURSIVE B64Ungroups(_)
B64Ungroups(text) ==
    IF text = <<>> THEN <<>>
    ELSE B64Ungroup(SubSeq(text, 1, 4)) \o B64Ungroups(SubSeq(text, 5, Len(text)))

\* base64.b64decode: binascii.Error ("Incorrect padding") unless the text is
\* whole groups of four with padding only at the end.
B64WellFormed(text) ==
    /\ Len(text) % 4 = 0
    /\ \A i \in DOMAIN text :
          text[i] = B64Pad =>
             /\ i > Len(text) - 2
             /\ \A j \in i..Len(text) : text[j] = B64Pad

b64decode(text) ==
    IF B64WellFormed(text)
    THEN [ok |-> TRUE, val |-> B64Ungroups(text)]
    ELSE [ok |-> FALSE, val |-> <<>>]

\* ----------------------------------------------------------------- base58
\* str(Pubkey): the bytes as one big-endian number written in base 58, one
\* leading "1" (digit 0) per leading zero byte.

RECURSIVE BigEndian(_)
BigEndian(bytes) ==
    IF bytes = <<>> THEN 0
    ELSE BigEndian(SubSeq(bytes, 1, Len(bytes) - 1)) * 256 + bytes[Len(bytes)]

RECURSIVE B58Digits(_)
B58Digits(n) == IF n = 0 THEN <<>> ELSE B58Digits(n \div 58) \o <<n % 58>>

RECURSIVE LeadingZeros(_)
LeadingZeros(bytes) ==
    IF bytes = <<>> \/ Head(bytes) # 0 THEN 0 ELSE 1 + LeadingZeros(Tail(bytes))

b58encode(bytes) == Zeros(LeadingZeros(bytes)) \o B58Digits(BigEndian(bytes))

\* ------------------------------------------------------- keys and addresses

\* Bytes of the secret half of the key file.
SecLen == 2

\* keys/full.json: the secret bytes followed by the public key bytes.
KeyFile == <<201, 77, 7>>

\* load_payer: Keypair.from_bytes(bytes(raw)).
load_payer == [secret |-> SubSeq(KeyFile, 1, SecLen),
               pubkey |-> SubSeq(KeyFile, SecLen + 1, SecLen + KeyLen)]

payer == load_payer

\* config.toml: mint.pubkey and program.id, already parsed to key bytes.
mint_pk == <<33>>
program_pk == <<44>>
\* spl.token constants.
TOKEN_PROGRAM_ID == <<6>>
ASSOCIATED_TOKEN_PROGRAM_ID == <<140>>
\* A signer whose key the client does not hold.
OtherSigner == <<9>>

\* Position-weighted digest standing for SHA-256 / the Ed25519 hash.
RECURSIVE Digest(_)
Digest(bytes) ==
    IF bytes = <<>> THEN 17
    ELSE (Digest(SubSeq(bytes, 1, Len(bytes) - 1)) * 31 + bytes[Len(bytes)]) % 251

\* Keypair.sign_message: SigLen bytes fixed by the key and the message bytes.
Sign(kp, msgBytes) ==
    <<(Digest(msgBytes \o kp.secret) + 1) % 256, (Digest(kp.pubkey \o msgBytes) + 1) % 256>>

\* A point is a valid public key (on the curve) or not.
OnCurve(addr) == addr[1] % 2 = 1

RECURSIVE Flatten(_)
Flatten(ss) == IF ss = <<>> THEN <<>> ELSE Head(ss) \o Flatten(Tail(ss))

\* Pubkey.find_program_address: bump 255 downwards until the hash is off curve.
RECURSIVE TryBump(_, _, _)
TryBump(seeds, programId, bump) ==
    LET h == <<Digest(Flatten(seeds) \o <<bump>> \o programId)>>
    IN  IF ~OnCurve(h) THEN [ok |-> TRUE, address |-> h, bump |-> bump]
        ELSE IF bump = 0 THEN [ok |-> FALSE, address |-> <<>>, bump |-> 0]
        ELSE TryBump(seeds, programId, bump - 1)

find_program_address(seeds, programId) == TryBump(seeds, programId, 255)

\* spl.token.instructions.get_associated_token_address.
get_associated_token_address(owner, mint) ==
    find_program_address(<<owner, TOKEN_PROGRAM_ID, mint>>,
                         ASSOCIATED_TOKEN_PROGRAM_ID).address

\* ----------------------------------------------------------- transactions
\* message: [nreq, keys, payload]; transaction: [signatures, message].

MsgBytes(m) == <<m.nreq, Len(m.keys)>> \o Flatten(m.keys) \o m.payload

\* bytes(tx): signature count, signatures, message.
TxBytes(t) == <<Len(t.signatures)>> \o Flatten(t.signatures) \o MsgBytes(t.message)

Chunks(bytes, n, k) == [i \in 1..k |-> SubSeq(bytes, (i - 1) * n + 1, i * n)]

\* VersionedTransaction.from_bytes: fails on input too short for its own counts.
from_bytes(bytes) ==
    LET nsig   == bytes[1]
        mstart == 1 + nsig * SigLen + 1
        nkeys  == bytes[mstart + 1]
        pstart == mstart + 2 + nkeys * KeyLen
        bad    == [ok |-> FALSE, tx |-> <<>>]
    IN  IF Len(bytes) < 1 THEN bad
        ELSE IF Len(bytes) < mstart + 1 THEN bad
        ELSE IF Len(bytes) < pstart - 1 THEN bad
        ELSE [ok |-> TRUE,
              tx |-> [signatures |-> Chunks(Slice(bytes, 2, mstart - 1), SigLen, nsig),
                      message |-> [nreq |-> bytes[mstart],
                                   keys |-> Chunks(Slice(bytes, mstart + 2, pstart - 1),
                                                   KeyLen, nkeys),
                                   payload |-> Slice(bytes, pstart, Len(bytes))]]]

\* Transaction.new_unsigned: one all-zero signature per required signer.
Unsigned(m) == [signatures |-> [i \in 1..m.nreq |-> Zeros(SigLen)], message |-> m]

\* A constructor that rebuilds the header from the signers it was given
\* instead of checking them against the message.
NewSignedTxRebuilt(m, keypairs) ==
    LET m2 == [m EXCEPT !.nreq = Len(keypairs)]
    IN  [ok |-> TRUE, err |-> "",
         tx |-> [signatures |-> [i \in DOMAIN keypairs |-> Sign(keypairs[i], MsgBytes(m2))],
                 message |-> m2]]

\* A constructor that signs the slots it has a keypair for and leaves the
\* others zeroed instead of refusing.
NewSignedTxPartial(m, keypairs) ==
    LET slot(i) == IF \E k \in DOMAIN keypairs : keypairs[k].pubkey = m.keys[i]
                   THEN Sign(CHOOSE kp \in Range(keypairs) : kp.pubkey = m.keys[i], MsgBytes(m))
                   ELSE Zeros(SigLen)
    IN  [ok |-> TRUE, err |-> "",
         tx |-> [signatures |-> [i \in 1..m.nreq |-> slot(i)], message |-> m]]

\* VersionedTransaction(message, keypairs): the signers must be exactly the
\* message's first nreq account keys, else SignerError.
NewSignedTx(m, keypairs) ==
    LET expected == SubSeq(m.keys, 1, m.nreq)
        bad(e)   == [ok |-> FALSE, err |-> e, tx |-> <<>>]
    IN  IF Len(m.keys) < m.nreq THEN bad("SignerError")
        ELSE IF Len(keypairs) # Len(expected) THEN bad("SignerError")
        ELSE IF \E i \in DOMAIN expected :
                   \A k \in DOMAIN keypairs : keypairs[k].pubkey # expected[i]
             THEN bad("SignerError")
        ELSE [ok |-> TRUE, err |-> "",
              tx |-> [signatures |->
                         [i \in DOMAIN expected |->
                             Sign(CHOOSE kp \in Range(keypairs) : kp.pubkey = expected[i],
                                  MsgBytes(m))],
                      message |-> m]]

\* ------------------------------------------------------- inputs of the calls

\* main pads the utf-8 user id with NUL bytes to 32 bytes (bytes.ljust).
UserIdLen == 32

ljust(bytes, n) == IF Len(bytes) >= n THEN bytes ELSE bytes \o Zeros(n - Len(bytes))

\* user_id_b64 as main builds it from the raw identifier.
user_id_b64(raw) == b64encode(ljust(raw, UserIdLen))

\* Raw identifiers the caller uses.
RawUserIds == {<<97, 49>>}
UserIds == {user_id_b64(raw) : raw \in RawUserIds}

SAMPLE_MINT_AMOUNT == 1000000
SAMPLE_TRANSFER_AMOUNT == 100000
Amounts == {SAMPLE_TRANSFER_AMOUNT}

\* main: PublicKey.find_program_address([b"treasury", bytes(mint_pk)], program_pk);
\* the seed text is kept as one byte.
treasury_account == find_program_address(<<<<116>>, mint_pk>>, program_pk).address

\* ------------------------------------------------------- the remote services

\* Messages the builder service may put in an unsigned transaction: one the
\* payer alone can sign, one that needs a second signer, one whose fee payer
\* is somebody else.
Messages ==
    { [nreq |-> 1, keys |-> <<payer.pubkey, program_pk>>, payload |-> <<3, 1>>],
      [nreq |-> 2, keys |-> <<payer.pubkey, OtherSigner>>, payload |-> <<5>>],
      [nreq |-> 1, keys |-> <<OtherSigner, program_pk>>, payload |-> <<3, 1>>] }

\* HTTP status codes a service answers with; 0 stands for no answer at all
\* (connection refused or reset: requests raises ConnectionError).
NoAnswer == 0
Statuses == {200, 400, 500}

\* Text in the "tx" field: well-formed transactions, base64 with broken
\* padding, and well-formed base64 of truncated transaction bytes.
BuilderTexts ==
    {b64encode(TxBytes(Unsigned(m))) : m \in Messages}
      \cup {<<1, 0, 0>>, b64encode(<<1, 0, 0, 1>>)}

\* A response: status, whether the body is JSON, and the field the client
\* reads (absent: <<>>, present: <<text>>).
BuilderResponses ==
    {[status |-> NoAnswer, json |-> FALSE, tx |-> <<>>]}
      \cup [status : Statuses, json : {FALSE}, tx : {<<>>}]
      \cup [status : Statuses, json : {TRUE}, tx : {<<>>} \cup {<<t>> : t \in BuilderTexts}]

\* Confirmation ids the broadcast endpoint hands out ("" is the empty string).
SigTexts == {<<>>, <<53, 120>>}

BroadcastResponses ==
    {[status |-> NoAnswer, json |-> FALSE, sig |-> <<>>]}
      \cup [status : Statuses, json : {FALSE}, sig : {<<>>}]
      \cup [status : Statuses, json : {TRUE}, sig : {<<>>} \cup {<<t>> : t \in SigTexts}]

\* The JSON document a query route answers with, as opaque text (<<>>: a
\* document without the keys main prints).
QueryResponses ==
    {[status |-> NoAnswer, json |-> FALSE, doc |-> <<>>]}
      \cup [status : Statuses, json : {FALSE}, doc : {<<>>}]
      \cup [status : Statuses, json : {TRUE}, doc : {<<>>, <<123, 125>>}]

\* Response.raise_for_status: HTTPError for 4xx and 5xx.
raise_for_status(res) == res.status >= 400 /\ res.status < 600

\* ------------------------------------------------------------------ state

VARIABLES
    calls,      \* operations invoked so far
    op,         \* the operation in progress, or the last one
    pc,         \* where the call stands
    inflight,   \* the pending network exchange: "none", "open" or "dead"
    stages,     \* pipeline stages the current call went through
    sent,       \* requests the current call put on the network, in order
    got,        \* responses the current call received, in order
    tx,         \* the fetched unsigned transaction: <<>> or <<tx>>
    signed,     \* the signed transaction: <<>> or <<tx>>
    ret,        \* what the call returned or raised
    chain,      \* the token account on chain, and creations in flight
    ataLog,     \* finished get_or_create_associated_token_account calls
    caller,     \* who invokes the operations: "main" or "free" (any order)
    mainLog,    \* the steps main has started, each with how the one before stood
    ledger      \* the user's balance on the ledger, and deposits in flight

vars == <<calls, op, pc, inflight, stages, sent, got, tx, signed, ret, chain, ataLog,
          caller, mainLog, ledger>>

NoRet == [kind |-> "pending", val |-> <<>>, err |-> ""]
Value(v) == [kind |-> "value", val |-> v, err |-> ""]
\* Python's None.
NoneValue == [kind |-> "none", val |-> <<>>, err |-> ""]
Error(e) == [kind |-> "error", val |-> <<>>, err |-> e]

MutatingOps == {"create_user", "mint_to_treasury", "transfer_from_treasury", "deposit_to_user"}
QueryOps == {"balance_user", "total_supply", "balance_treasury"}

Init ==
    /\ calls = 0
    /\ op = "none"
    /\ pc = "idle"
    /\ inflight = "none"
    /\ stages = <<>>
    /\ sent = <<>>
    /\ got = <<>>
    /\ tx = <<>>
    /\ signed = <<>>
    /\ ret = NoRet
    /\ chain \in [exists : BOOLEAN, pending : {0}]
    /\ ataLog = <<>>
    /\ caller \in {"free", "main"}
    /\ mainLog = <<>>
    /\ ledger = [free |-> 0, pending |-> 0]

\* The caller is between calls: nothing is in progress.
CanCall == pc \in {"idle", "returned", "raised"} /\ calls < MaxCalls

\* main, lines 185-238: the operations it calls, in program order.
MainSteps ==
    <<"create_user", "mint_to_treasury", "get_or_create_associated_token_account",
      "deposit_to_user", "balance_user", "total_supply", "balance_treasury">>

\* main carrying on after a step raised, as if the exception were swallowed.
main_keeps_going(name) ==
    /\ pc \in {"idle", "returned", "raised"}
    /\ Len(mainLog) < Len(MainSteps)
    /\ MainSteps[Len(mainLog) + 1] = name

\* main reaches its next call, name: the call before has returned (an
\* exception ends main), and the print after a query found its keys in the
\* document (a KeyError ends main as well).
main(name) ==
    /\ pc \in {"idle", "returned"}
    /\ Len(mainLog) < Len(MainSteps)
    /\ MainSteps[Len(mainLog) + 1] = name
    /\ (pc = "returned" /\ op \in {"balance_user", "total_supply", "balance_treasury"})
          => ret.val # <<>>

\* The operation name may be invoked now.
MayCall(name) == IF caller = "main" THEN main(name) ELSE CanCall

\* What invoking name adds to main's record: the step, where the step before
\* stood and what it had returned.
Started(name) ==
    IF caller = "main"
    THEN Append(mainLog, [op |-> name, after |-> pc, prev |-> ret])
    ELSE mainLog

\* The call waits at p for an answer that can still come.
Awaiting(p) == pc = p /\ inflight = "open"

\* The call waits on the RPC client and the node has gone silent: the
\* client's timeout is what ends the wait.
TimeoutDue == inflight = "dead" /\ pc \in {"info_wait", "send_wait"}

\* ------------------------------------------------- fetch, sign and broadcast

\* fetch_unsigned, line 50: the POST to the builder route.
FetchRequest(route, body) == [to |-> "builder", method |-> "POST", route |-> route, body |-> body]

\* A mutating operation starts: its body is packaged and posted to its route.
StartMutating(name, route, body) ==
    /\ MayCall(name)
    /\ mainLog' = Started(name)
    /\ calls' = calls + 1
    /\ op' = name
    /\ pc' = "fetch_wait"
    /\ inflight' = "open"
    /\ stages' = <<"Pending">>
    /\ sent' = <<FetchRequest(route, body)>>
    /\ got' = <<>>
    /\ tx' = <<>>
    /\ signed' = <<>>
    /\ ret' = NoRet
    /\ UNCHANGED <<chain, ataLog, caller, ledger>>

\* str(payer) is the base58 text of the whole keypair, secret half included.
PayerFieldKeypair == b58encode(payer.secret \o payer.pubkey)

\* str(payer.pubkey()), the payer_pubkey field of every builder request.
PayerField == b58encode(payer.pubkey)

create_user ==
    \E u \in UserIds :
        StartMutating("create_user", "create_user",
                      [payer_pubkey |-> PayerField, user_id |-> u])

mint_to_treasury ==
    StartMutating("mint_to_treasury", "mint",
                  [payer_pubkey |-> PayerField,
                   mint_pubkey |-> b58encode(mint_pk),
                   amount |-> SAMPLE_MINT_AMOUNT])

transfer_from_treasury ==
    \E u \in UserIds, a \in Amounts :
        StartMutating("transfer_from_treasury", "transfer",
                      [payer_pubkey |-> PayerField,
                       mint_pubkey |-> b58encode(mint_pk),
                       from_id |-> u,
                       to_id |-> u,
                       amount |-> a,
                       from_token_account |-> b58encode(treasury_account),
                       to_token_account |->
                           b58encode(get_associated_token_address(payer.pubkey, mint_pk))])

\* deposit_to_user that also sends the treasury_account it is given.
deposit_to_user_with_treasury ==
    \E u \in UserIds, a \in Amounts :
        StartMutating("deposit_to_user", "deposit",
                      [payer_pubkey |-> PayerField,
                       mint_pubkey |-> b58encode(mint_pk),
                       user_id |-> u,
                       amount |-> a,
                       treasury_account |-> b58encode(treasury_account),
                       user_token_account |->
                           b58encode(get_associated_token_address(payer.pubkey, mint_pk))])

deposit_to_user ==
    \E u \in UserIds, a \in Amounts :
        StartMutating("deposit_to_user", "deposit",
                      [payer_pubkey |-> PayerField,
                       mint_pubkey |-> b58encode(mint_pk),
                       user_id |-> u,
                       amount |-> a,
                       user_token_account |->
                           b58encode(get_associated_token_address(payer.pubkey, mint_pk))])

\* fetch_unsigned without line 51: the body is read whatever the status.
fetch_unsigned_unchecked(res) ==
    LET bad(e)  == [ok |-> FALSE, err |-> e, tx |-> <<>>]
        decoded == b64decode(res.tx[1])
        parsed  == from_bytes(decoded.val)
    IN  IF res.status = NoAnswer THEN bad("ConnectionError")
        ELSE IF ~res.json THEN bad("JSONDecodeError")
        ELSE IF res.tx = <<>> THEN bad("KeyError")
        ELSE IF ~decoded.ok THEN bad("binascii.Error")
        ELSE IF ~parsed.ok THEN bad("ValueError")
        ELSE [ok |-> TRUE, err |-> "", tx |-> <<parsed.tx>>]

\* fetch_unsigned, lines 50-55, on the response res: the error it raises or the
\* transaction it returns.
fetch_unsigned(res) ==
    LET bad(e)  == [ok |-> FALSE, err |-> e, tx |-> <<>>]
        decoded == b64decode(res.tx[1])
        parsed  == from_bytes(decoded.val)
    IN  IF res.status = NoAnswer THEN bad("ConnectionError")
        ELSE IF raise_for_status(res) THEN bad("HTTPError")
        ELSE IF ~res.json THEN bad("JSONDecodeError")
        ELSE IF res.tx = <<>> THEN bad("KeyError")
        ELSE IF ~decoded.ok THEN bad("binascii.Error")
        ELSE IF ~parsed.ok THEN bad("ValueError")
        ELSE [ok |-> TRUE, err |-> "", tx |-> <<parsed.tx>>]

\* The call ends with exception e.
Raise(e) ==
    /\ pc' = "raised"
    /\ inflight' = "none"
    /\ ret' = Error(e)
    /\ stages' = IF op \in MutatingOps THEN Append(stages, "Failed") ELSE stages

\* The builder service answers the request of fetch_unsigned.
BuilderResponds ==
    /\ Awaiting("fetch_wait")
    /\ \E res \in BuilderResponses :
          LET r == fetch_unsigned(res)
          IN  /\ got' = Append(got, res)
              /\ IF r.ok
                 THEN /\ tx' = r.tx
                      /\ pc' = "fetched"
                      /\ inflight' = "none"
                      /\ stages' = Append(stages, "Fetched")
                      /\ ret' = ret
                 ELSE /\ tx' = r.tx
                      /\ Raise(r.err)
    /\ UNCHANGED <<caller, mainLog, ledger, calls, op, sent, signed, chain, ataLog>>

\* sign_and_broadcast, line 64: the POST to the broadcast route.
BroadcastRequest(signed_b64) ==
    [to |-> "broadcast", method |-> "POST", route |-> "broadcast", body |-> [tx |-> signed_b64]]

\* sign_and_broadcast posting the fetched transaction as it came, unsigned.
sign_and_broadcast_unsigned ==
    /\ pc = "fetched"
    /\ sent' = Append(sent, BroadcastRequest(b64encode(TxBytes(tx[1]))))
    /\ stages' = Append(stages, "Broadcast")
    /\ pc' = "bcast_wait"
    /\ inflight' = "open"
    /\ UNCHANGED <<caller, mainLog, ledger, calls, op, got, tx, signed, ret, chain, ataLog>>

\* sign_and_broadcast, lines 60-64: sign the fetched message, serialise, post.
sign_and_broadcast ==
    /\ pc = "fetched"
    /\ LET s == NewSignedTx(tx[1].message, <<payer>>)
       IN  IF s.ok
           THEN /\ signed' = <<s.tx>>
                /\ sent' = Append(sent, BroadcastRequest(b64encode(TxBytes(s.tx))))
                /\ stages' = stages \o <<"Signed", "Broadcast">>
                /\ pc' = "bcast_wait"
                /\ inflight' = "open"
                /\ ret' = ret
           ELSE /\ Raise(s.err)
                /\ UNCHANGED <<signed, sent>>
    /\ UNCHANGED <<caller, mainLog, ledger, calls, op, got, tx, chain, ataLog>>

\* sign_and_broadcast without line 65: the body is read whatever the status.
broadcast_result_unchecked(res) ==
    IF res.status = NoAnswer THEN Error("ConnectionError")
    ELSE IF ~res.json THEN Error("JSONDecodeError")
    ELSE IF res.sig = <<>> THEN NoneValue
    ELSE Value(res.sig[1])

\* sign_and_broadcast, lines 65-66, on the response res.
broadcast_result(res) ==
    IF res.status = NoAnswer THEN Error("ConnectionError")
    ELSE IF raise_for_status(res) THEN Error("HTTPError")
    ELSE IF ~res.json THEN Error("JSONDecodeError")
    ELSE IF res.sig = <<>> THEN NoneValue
    ELSE Value(res.sig[1])

\* The ledger once the broadcast endpoint has answered res: a deposit it took
\* (status 200) is accepted for processing, not yet applied.
LedgerAfterBroadcast(res) ==
    IF op = "deposit_to_user" /\ res.status = 200
    THEN [ledger EXCEPT !.pending = @ + 1]
    ELSE ledger

\* The broadcast endpoint answers, and a failed post is posted again.
BroadcastRespondsRetrying ==
    /\ Awaiting("bcast_wait")
    /\ \E res \in BroadcastResponses :
          LET r == broadcast_result(res)
          IN  /\ got' = Append(got, res)
              /\ IF r.kind = "error"
                 THEN /\ sent' = Append(sent, sent[Len(sent)])
                      /\ UNCHANGED <<pc, inflight, ret, stages>>
                 ELSE /\ pc' = "returned"
                      /\ inflight' = "none"
                      /\ ret' = r
                      /\ stages' = Append(stages, "Confirmed")
                      /\ sent' = sent
    /\ UNCHANGED <<caller, mainLog, ledger, calls, op, tx, signed, chain, ataLog>>

\* The broadcast endpoint answers.
BroadcastResponds ==
    /\ Awaiting("bcast_wait")
    /\ \E res \in BroadcastResponses :
          LET r == broadcast_result(res)
          IN  /\ got' = Append(got, res)
              /\ ledger' = LedgerAfterBroadcast(res)
              /\ IF r.kind = "error"
                 THEN Raise(r.err)
                 ELSE /\ pc' = "returned"
                      /\ inflight' = "none"
                      /\ ret' = r
                      /\ stages' = Append(stages, "Confirmed")
    /\ UNCHANGED <<caller, mainLog, calls, op, sent, tx, signed, chain, ataLog>>

\* ---------------------------------------------------------------- queries

\* A read-only query starts: one request to its route.
StartQuery(name, method, body) ==
    /\ MayCall(name)
    /\ mainLog' = Started(name)
    /\ calls' = calls + 1
    /\ op' = name
    /\ pc' = "query_wait"
    /\ inflight' = "open"
    /\ stages' = <<>>
    /\ sent' = <<[to |-> "query", method |-> method, route |-> name, body |-> body]>>
    /\ got' = <<>>
    /\ tx' = <<>>
    /\ signed' = <<>>
    /\ ret' = NoRet
    /\ UNCHANGED <<chain, ataLog, caller, ledger>>

balance_user == \E u \in UserIds : StartQuery("balance_user", "POST", [user_id |-> u])

total_supply == StartQuery("total_supply", "GET", <<>>)

balance_treasury == StartQuery("balance_treasury", "GET", <<>>)

\* A query without its raise_for_status line.
query_result_unchecked(res) ==
    IF res.status = NoAnswer THEN Error("ConnectionError")
    ELSE IF ~res.json THEN Error("JSONDecodeError")
    ELSE Value(res.doc)

\* The tail of each query: raise_for_status, then res.json().
query_result(res) ==
    IF res.status = NoAnswer THEN Error("ConnectionError")
    ELSE IF raise_for_status(res) THEN Error("HTTPError")
    ELSE IF ~res.json THEN Error("JSONDecodeError")
    ELSE Value(res.doc)

\* What balance_user is answered: free_balance and frozen_balance as the
\* ledger has them when the answer is made.
BalanceResponses ==
    {[status |-> NoAnswer, json |-> FALSE, doc |-> <<>>]}
      \cup [status : Statuses, json : {FALSE}, doc : {<<>>}]
      \cup [status : Statuses, json : {TRUE}, doc : {<<>>, <<ledger.free, 0>>}]

\* The service answers a query.
QueryResponds ==
    /\ Awaiting("query_wait")
    /\ \E res \in (IF op = "balance_user" THEN BalanceResponses ELSE QueryResponses) :
          LET r == query_result(res)
          IN  /\ got' = Append(got, res)
              /\ IF r.kind = "error"
                 THEN Raise(r.err)
                 ELSE /\ pc' = "returned"
                      /\ inflight' = "none"
                      /\ ret' = r
                      /\ stages' = stages
    /\ UNCHANGED <<caller, mainLog, ledger, calls, op, sent, tx, signed, chain, ataLog>>

\* ------------------------------------------- associated token account helper

\* The creation transaction of lines 160-167: payer funds, owner is the payer.
CreateAtaMessage(ata) ==
    [nreq |-> 1,
     keys |-> <<payer.pubkey, ata, mint_pk, TOKEN_PROGRAM_ID, ASSOCIATED_TOKEN_PROGRAM_ID>>,
     payload |-> <<>>]

RpcRequest(method, body) == [to |-> "rpc", method |-> "POST", route |-> method, body |-> body]

\* get_or_create_associated_token_account, lines 156-157: derive the address
\* and ask the RPC node for the account.
get_or_create_associated_token_account ==
    /\ MayCall("get_or_create_associated_token_account")
    /\ mainLog' = Started("get_or_create_associated_token_account")
    /\ calls' = calls + 1
    /\ op' = "get_or_create_associated_token_account"
    /\ pc' = "info_wait"
    /\ inflight' = "open"
    /\ stages' = <<>>
    /\ sent' = <<RpcRequest("getAccountInfo",
                            [address |-> b58encode(get_associated_token_address(payer.pubkey, mint_pk))])>>
    /\ got' = <<>>
    /\ tx' = <<>>
    /\ signed' = <<>>
    /\ ret' = NoRet
    /\ UNCHANGED <<chain, ataLog, caller, ledger>>

\* One finished call of the helper, for the record.
AtaEntry(submitted, r) == [submitted |-> submitted, ret |-> r]

\* The helper with a derivation that takes the node's answer into account:
\* when an account is reported, the search for the address starts one bump
\* lower.
AfterAccountInfoFromAnswer(value) ==
    LET ata == IF value
               THEN TryBump(<<payer.pubkey, TOKEN_PROGRAM_ID, mint_pk>>,
                            ASSOCIATED_TOKEN_PROGRAM_ID, 254).address
               ELSE get_associated_token_address(payer.pubkey, mint_pk)
        s   == NewSignedTx(CreateAtaMessage(ata), <<payer>>)
    IN  IF value
        THEN /\ pc' = "returned"
             /\ inflight' = "none"
             /\ ret' = Value(b58encode(ata))
             /\ ataLog' = Append(ataLog, AtaEntry(FALSE, Value(b58encode(ata))))
             /\ UNCHANGED <<sent, signed, stages>>
        ELSE \/ /\ signed' = <<s.tx>>
                /\ sent' = Append(sent, RpcRequest("sendTransaction",
                                                   [tx |-> b64encode(TxBytes(s.tx))]))
                /\ pc' = "send_wait"
                /\ inflight' = "open"
                /\ UNCHANGED <<ret, ataLog, stages>>
             \/ /\ Raise("TypeError")
                /\ ataLog' = Append(ataLog, AtaEntry(FALSE, Error("TypeError")))
                /\ UNCHANGED <<sent, signed>>

\* Lines 159-169 once get_account_info has answered with value (TRUE: an
\* account, FALSE: None).  Transaction() and tx.add are the legacy
\* solana-py interface, while line 11 imports the solders class, whose
\* constructor needs arguments: depending on the installed library the
\* absent branch builds the transaction or raises TypeError.
AfterAccountInfo(value) ==
    LET ata == get_associated_token_address(payer.pubkey, mint_pk)
        s   == NewSignedTx(CreateAtaMessage(ata), <<payer>>)
    IN  IF value
        THEN /\ pc' = "returned"
             /\ inflight' = "none"
             /\ ret' = Value(b58encode(ata))
             /\ ataLog' = Append(ataLog, AtaEntry(FALSE, Value(b58encode(ata))))
             /\ UNCHANGED <<sent, signed, stages>>
        ELSE \/ /\ signed' = <<s.tx>>
                /\ sent' = Append(sent, RpcRequest("sendTransaction",
                                                   [tx |-> b64encode(TxBytes(s.tx))]))
                /\ pc' = "send_wait"
                /\ inflight' = "open"
                /\ UNCHANGED <<ret, ataLog, stages>>
             \/ /\ Raise("TypeError")
                /\ ataLog' = Append(ataLog, AtaEntry(FALSE, Error("TypeError")))
                /\ UNCHANGED <<sent, signed>>

\* The RPC node answers get_account_info: the account as the chain has it, or
\* an RPC error.
AccountInfoResponds ==
    /\ Awaiting("info_wait")
    /\ \/ /\ got' = Append(got, [status |-> 200, value |-> chain.exists])
          /\ AfterAccountInfo(chain.exists)
       \/ /\ got' = Append(got, [status |-> 500, value |-> FALSE])
          /\ Raise("RPCException")
          /\ ataLog' = Append(ataLog, AtaEntry(FALSE, Error("RPCException")))
          /\ UNCHANGED <<sent, signed>>
    /\ UNCHANGED <<caller, mainLog, ledger, calls, op, tx, chain>>

\* The RPC node answers send_transaction: accepted (the creation is now in
\* flight, not yet part of the chain state) or rejected.
SendResponds ==
    /\ Awaiting("send_wait")
    /\ LET ata == get_associated_token_address(payer.pubkey, mint_pk)
       IN  \/ /\ got' = Append(got, [status |-> 200, value |-> TRUE])
              /\ chain' = [chain EXCEPT !.pending = @ + 1]
              /\ pc' = "returned"
              /\ inflight' = "none"
              /\ ret' = Value(b58encode(ata))
              /\ ataLog' = Append(ataLog, AtaEntry(TRUE, Value(b58encode(ata))))
              /\ stages' = stages
           \/ /\ got' = Append(got, [status |-> 500, value |-> FALSE])
              /\ chain' = chain
              /\ Raise("RPCException")
              /\ ataLog' = Append(ataLog, AtaEntry(TRUE, Error("RPCException")))
    /\ UNCHANGED <<caller, mainLog, ledger, calls, op, sent, tx, signed>>

\* ------------------------------------------------------------ environment

\* A creation in flight becomes part of the chain state.
ChainLands ==
    /\ chain.pending > 0
    /\ chain' = [exists |-> TRUE, pending |-> chain.pending - 1]
    /\ UNCHANGED <<caller, mainLog, ledger, calls, op, pc, inflight, stages, sent, got,
                   tx, signed, ret, ataLog>>

\* A creation in flight is dropped (expired blockhash, failed execution).
ChainDrops ==
    /\ chain.pending > 0
    /\ chain' = [chain EXCEPT !.pending = @ - 1]
    /\ UNCHANGED <<caller, mainLog, ledger, calls, op, pc, inflight, stages, sent, got,
                   tx, signed, ret, ataLog>>

\* A deposit in flight is applied: the user's free balance grows by the
\* deposited amount.  The deposit credits the user's token account, which
\* has to exist.
LedgerApplies ==
    /\ ledger.pending > 0
    /\ chain.exists
    /\ ledger' = [free |-> ledger.free + SAMPLE_TRANSFER_AMOUNT,
                  pending |-> ledger.pending - 1]
    /\ UNCHANGED <<caller, mainLog, calls, op, pc, inflight, stages, sent, got, tx, signed,
                   ret, chain, ataLog>>

\* A deposit in flight fails on the ledger and is dropped.
LedgerDrops ==
    /\ ledger.pending > 0
    /\ ledger' = [ledger EXCEPT !.pending = @ - 1]
    /\ UNCHANGED <<caller, mainLog, calls, op, pc, inflight, stages, sent, got, tx, signed,
                   ret, chain, ataLog>>

\* The remote side goes silent: the exchange in progress gets no answer.
RemoteStalls ==
    /\ inflight = "open"
    /\ inflight' = "dead"
    /\ UNCHANGED <<caller, mainLog, ledger, calls, op, pc, stages, sent, got, tx, signed,
                   ret, chain, ataLog>>

\* Client(cfg["rpc_url"]) carries the library's default timeout: a silent RPC
\* node ends the helper with an error.  The requests calls pass no timeout
\* and have no such step.
RpcTimeout ==
    /\ TimeoutDue
    /\ Raise("TimeoutException")
    /\ ataLog' = Append(ataLog, AtaEntry(pc = "send_wait", Error("TimeoutException")))
    /\ \/ chain' = chain
       \/ /\ pc = "send_wait"
          /\ chain' = [chain EXCEPT !.pending = @ + 1]
    /\ UNCHANGED <<caller, mainLog, ledger, calls, op, sent, got, tx, signed>>

\* ------------------------------------------------------------ specification

Next ==
    \/ create_user
    \/ mint_to_treasury
    \/ transfer_from_treasury
    \/ deposit_to_user
    \/ BuilderResponds
    \/ sign_and_broadcast
    \/ BroadcastResponds
    \/ balance_user
    \/ total_supply
    \/ balance_treasury
    \/ QueryResponds
    \/ get_or_create_associated_token_account
    \/ AccountInfoResponds
    \/ SendResponds
    \/ ChainLands
    \/ ChainDrops
    \/ LedgerApplies
    \/ LedgerDrops
    \/ RemoteStalls
    \/ RpcTimeout

Spec == Init /\ [][Next]_vars

\* ------------------------------------------------------------------ claims

Terminal == pc \in {"returned", "raised"}

Count(to) == Cardinality({i \in DOMAIN sent : sent[i].to = to})

IsPrefix(s, t) == Len(s) <= Len(t) /\ SubSeq(t, 1, Len(s)) = s

Pipeline == <<"Pending", "Fetched", "Signed", "Broadcast">>

\* The stages before the closing Confirmed or Failed.
Core ==
    IF stages # <<>> /\ stages[Len(stages)] \in {"Confirmed", "Failed"}
    THEN SubSeq(stages, 1, Len(stages) - 1)
    ELSE stages

Closing ==
    IF stages # <<>> /\ stages[Len(stages)] \in {"Confirmed", "Failed"}
    THEN stages[Len(stages)]
    ELSE "open"

\* A helper call that met no network failure of its own.
Undisturbed(e) == e.ret.err \notin {"RPCException", "TimeoutException"}

\* C1: two calls of get_or_create_associated_token_account in sequence (neither
\* meeting a network failure) submit at most one creation in total; the second
\* submits nothing and returns the address the first returned.
C1_SecondCallIsNoOp ==
    (Len(ataLog) >= 2 /\ Undisturbed(ataLog[1]) /\ Undisturbed(ataLog[2])) =>
        /\ Cardinality({i \in 1..2 : ataLog[i].submitted}) <= 1
        /\ ~ataLog[2].submitted
        /\ ataLog[2].ret.kind = "value"
        /\ ataLog[2].ret = ataLog[1].ret

\* C2: a mutating call goes Pending, Fetched, Signed, Broadcast in that order;
\* a broadcast request exists only after the builder answered with success and
\* the transaction was signed; a failure closes the call with an error and
\* nothing of a later stage has happened.
C2_PipelineOrder ==
    op \in MutatingOps =>
        /\ Core # <<>>
        /\ IsPrefix(Core, Pipeline)
        /\ Count("broadcast") > 0 =>
              /\ Core = Pipeline
              /\ sent[1].to = "builder"
              /\ Len(got) >= 1 /\ got[1].status = 200
              /\ tx # <<>>
              /\ signed # <<>>
              /\ signed[1].signatures = <<Sign(payer, MsgBytes(tx[1].message))>>
        /\ Closing = "Confirmed" => Core = Pipeline /\ pc = "returned"
        /\ Closing = "Failed" =>
              /\ pc = "raised"
              /\ ret.kind = "error"
              /\ Core # Pipeline => Count("broadcast") = 0
              /\ "Fetched" \notin Range(Core) => tx = <<>>
              /\ "Signed" \notin Range(Core) => signed = <<>>
        /\ pc = "raised" => Closing = "Failed"

C2_Witness ==
    /\ op \in MutatingOps
    /\ pc = "returned"
    /\ stages = Pipeline \o <<"Confirmed">>

\* C3: when the builder answers with a non-success status the call has failed
\* with an error, holds no transaction, has signed nothing and has sent no
\* broadcast request.
C3_BuilderRejectionStopsCall ==
    (op \in MutatingOps /\ Len(got) >= 1 /\ got[1].status >= 400) =>
        /\ pc = "raised"
        /\ ret.kind = "error"
        /\ tx = <<>>
        /\ signed = <<>>
        /\ Count("broadcast") = 0

C3_Witness ==
    /\ op \in MutatingOps
    /\ Len(got) = 1
    /\ got[1].status = 400
    /\ got[1].tx # <<>>
    /\ b64decode(got[1].tx[1]).ok
    /\ from_bytes(b64decode(got[1].tx[1]).val).ok
    /\ pc = "raised"

\* C4: one mutating call sends at most one builder request and at most one
\* broadcast request, and a signed transaction is posted exactly once.
C4_NoRetry ==
    op \in MutatingOps =>
        /\ Count("builder") <= 1
        /\ Count("broadcast") <= 1
        /\ signed # <<>> => Count("broadcast") = 1

C4_Witness ==
    /\ op \in MutatingOps
    /\ Len(got) = 2
    /\ got[2].status = NoAnswer
    /\ pc = "raised"
    /\ Count("broadcast") = 1

\* C5: no operation blocks for ever: a call in progress can always take a step
\* towards its terminal result (an answer, or the timeout that ends the wait
\* with an error).
\* A step that moves the call in progress can be taken: the client's own
\* step, an answer it waits for, or the timeout of the RPC client.
CanProgress ==
    \/ Awaiting("fetch_wait")
    \/ pc = "fetched"
    \/ Awaiting("bcast_wait")
    \/ Awaiting("query_wait")
    \/ Awaiting("info_wait")
    \/ Awaiting("send_wait")
    \/ TimeoutDue

C5_EveryCallEnds == (~Terminal /\ pc # "idle") => CanProgress

\* C6: a mutating call that returns without an error returns the non-empty
\* confirmation id of the broadcast response.
C6_ReturnsConfirmationId ==
    (op \in MutatingOps /\ pc = "returned") =>
        /\ ret.kind = "value"
        /\ ret.val # <<>>
        /\ got[2].sig = <<ret.val>>

\* C7: when the broadcast endpoint answers with a non-success status, or the
\* connection fails, the call ends with that error and returns no id.
C7_BroadcastFailureSurfaces ==
    (op \in MutatingOps /\ Len(got) >= 2
        /\ (got[2].status >= 400 \/ got[2].status = NoAnswer)) =>
        /\ pc = "raised"
        /\ ret.kind = "error"
        /\ ret.err = (IF got[2].status = NoAnswer THEN "ConnectionError" ELSE "HTTPError")
        /\ ret.val = <<>>

C7_Witness ==
    /\ op \in MutatingOps
    /\ Len(got) = 2
    /\ got[2].status = 500
    /\ got[2].sig \notin {<<>>, <<<<>>>>}
    /\ pc = "raised"

\* The message bytes inside the base64 text of a transaction.
WireMessage(text) == MsgBytes(from_bytes(b64decode(text).val).tx.message)

\* C8: the transaction in a broadcast request decodes to the message of the
\* fetched unsigned transaction, byte for byte, with the payer's signature over
\* those bytes as the only addition.
C8_SigningKeepsMessage ==
    \A i \in DOMAIN sent :
        sent[i].to = "broadcast" =>
            LET text   == sent[i].body.tx
                posted == from_bytes(b64decode(text).val)
            IN  /\ b64decode(text).ok
                /\ posted.ok
                /\ WireMessage(text) = WireMessage(got[1].tx[1])
                /\ posted.tx.message = tx[1].message
                /\ posted.tx.signatures = <<Sign(payer, WireMessage(got[1].tx[1]))>>

C8_Witness ==
    /\ Count("broadcast") = 1
    /\ signed # <<>>
    /\ signed[1].message.payload # <<>>

\* Every text the secret key could travel as: the secret bytes and the whole
\* keypair, raw, in base58 and in base64.
SecretForms ==
    LET raw == {payer.secret, payer.secret \o payer.pubkey}
    IN  raw \cup {b58encode(k) : k \in raw} \cup {b64encode(k) : k \in raw}

\* The texts a request carries: its string fields, and the bytes of its
\* transaction.
Carried(req) ==
    {req.body[f] : f \in DOMAIN req.body \ {"amount"}}
      \cup (IF req.to \in {"broadcast", "rpc"} /\ "tx" \in DOMAIN req.body
            THEN {b64decode(req.body.tx).val}
            ELSE {})

Leaks(req) == \E t \in Carried(req), k \in SecretForms : Contains(t, k)

\* C9: no request on the network carries the secret key; a payer field holds
\* the payer's public address.
C9_SecretStaysLocal ==
    \A i \in DOMAIN sent :
        /\ ~Leaks(sent[i])
        /\ "payer_pubkey" \in DOMAIN sent[i].body =>
              sent[i].body.payer_pubkey = b58encode(payer.pubkey)

C9_Witness ==
    /\ Len(sent) = 2
    /\ sent[1].to = "builder"
    /\ sent[2].to = "broadcast"

\* C10: a query sends exactly one request, to its own route, and ends after one
\* response; it signs nothing, sends no builder or broadcast request, and a
\* non-success response ends it with an error.
C10_QueriesAreOneRoundTrip ==
    op \in QueryOps =>
        /\ Len(sent) = 1
        /\ sent[1].to = "query" /\ sent[1].route = op
        /\ Count("builder") = 0 /\ Count("broadcast") = 0
        /\ tx = <<>> /\ signed = <<>>
        /\ Len(got) = (IF Terminal THEN 1 ELSE 0)
        /\ (Len(got) = 1 /\ got[1].status >= 400) => pc = "raised" /\ ret.kind = "error"
        /\ pc = "returned" => got[1].status = 200 /\ ret = Value(got[1].doc)

C10_Witness ==
    /\ op \in QueryOps
    /\ Len(got) = 1
    /\ got[1].status = 400
    /\ got[1].json
    /\ pc = "raised"

\* main's step number of an operation.
StepOf(name) == CHOOSE i \in DOMAIN MainSteps : MainSteps[i] = name

\* C11: in main, when deposit_to_user of 100_000 has returned a confirmation
\* id, the balance_user query issued after it reports free_balance >= 100_000.
C11_DepositThenBalance ==
    (/\ caller = "main"
     /\ op = "balance_user"
     /\ pc = "returned"
     /\ ret.val # <<>>
     /\ mainLog[StepOf("balance_user")].prev.kind = "value"
     /\ mainLog[StepOf("balance_user")].prev.val # <<>>)
        => ret.val[1] >= SAMPLE_TRANSFER_AMOUNT

\* The builder routes and their body fields, as the interface table lists them.
TableRoute ==
    [create_user |-> "create_user", mint_to_treasury |-> "mint",
     transfer_from_treasury |-> "transfer", deposit_to_user |-> "deposit"]

TableFields ==
    [create_user |-> {"payer_pubkey", "user_id"},
     mint |-> {"payer_pubkey", "mint_pubkey", "amount"},
     transfer |-> {"payer_pubkey", "mint_pubkey", "from_id", "to_id", "amount",
                   "from_token_account", "to_token_account"},
     deposit |-> {"payer_pubkey", "mint_pubkey", "user_id", "amount", "user_token_account"}]

\* C12: a mutating call posts to its own route with exactly the body fields of
\* the interface table, and once a transaction is fetched it is signed and
\* posted whatever it contains: the only other way out is the signer check of
\* the transaction constructor.
C12_RouteFieldsAndPipeline ==
    op \in MutatingOps =>
        /\ sent[1].to = "builder"
        /\ sent[1].route = TableRoute[op]
        /\ DOMAIN sent[1].body = TableFields[sent[1].route]
        /\ ("Fetched" \in Range(Core) /\ pc # "fetched") =>
              \/ Count("broadcast") = 1 /\ sent[2].body.tx = b64encode(TxBytes(signed[1]))
              \/ pc = "raised" /\ ret.err = "SignerError" /\ Count("broadcast") = 0

C12_Witness ==
    /\ op = "deposit_to_user"
    /\ pc = "bcast_wait"
    /\ Count("broadcast") = 1

\* The address the helper derives for the payer and the mint, as text.
DerivedAta == b58encode(get_associated_token_address(payer.pubkey, mint_pk))

\* The requests of the current call that went to the RPC node under a method.
RpcCount(method) ==
    Cardinality({i \in DOMAIN sent : sent[i].to = "rpc" /\ sent[i].route = method})

\* C13: once the account query has been answered and the RPC node has failed
\* nothing, a finished helper call has queried the account exactly once; it
\* sent no transaction if the account was there, and exactly one creation
\* transaction (to the RPC node, none to the builder, signed by the owner) if
\* it was not; and it returned the derived address either way.
C13_EnsureAccountExists ==
    (/\ op = "get_or_create_associated_token_account"
     /\ Terminal
     /\ got # <<>>
     /\ \A i \in DOMAIN got : got[i].status = 200
     /\ ret.err # "TimeoutException")
        => /\ RpcCount("getAccountInfo") = 1
           /\ Count("builder") = 0
           /\ Count("broadcast") = 0
           /\ ret = Value(DerivedAta)
           /\ IF got[1].value
              THEN RpcCount("sendTransaction") = 0
              ELSE /\ RpcCount("sendTransaction") = 1
                   /\ signed # <<>>
                   /\ signed[1].message = CreateAtaMessage(get_associated_token_address(payer.pubkey, mint_pk))
                   /\ signed[1].signatures = <<Sign(payer, MsgBytes(signed[1].message))>>

\* The fetched message names, among its required signers, a key the client
\* does not hold.
NeedsForeignSigner ==
    /\ tx # <<>>
    /\ \E i \in 1..tx[1].message.nreq : tx[1].message.keys[i] # payer.pubkey

\* C14: a signed transaction carries exactly one signature, the supplied
\* keypair's over the fetched message; when the message requires a signer
\* the client does not hold, signing fails and nothing is posted to
\* /broadcast.
C14_SignerListIsThePayer ==
    op \in MutatingOps =>
        /\ signed # <<>> =>
              /\ signed[1].signatures = <<Sign(payer, MsgBytes(tx[1].message))>>
              /\ tx[1].message.keys[1] = payer.pubkey
        /\ (NeedsForeignSigner /\ pc # "fetched") =>
              /\ pc = "raised"
              /\ ret = Error("SignerError")
              /\ signed = <<>>
              /\ Count("broadcast") = 0

C14_Witness ==
    /\ op \in MutatingOps
    /\ NeedsForeignSigner
    /\ tx[1].message.nreq = 2
    /\ pc = "raised"
    /\ ret = Error("SignerError")

\* The addresses the helper has returned so far.
ReturnedAddresses ==
    {ataLog[i].ret.val : i \in {j \in DOMAIN ataLog : ataLog[j].ret.kind = "value"}}

C17_MainRunsInOrder ==
    caller = "main" =>
        /\ Len(mainLog) = calls
        /\ Len(mainLog) <= Len(MainSteps)
        /\ \A i \in DOMAIN mainLog :
              /\ mainLog[i].op = MainSteps[i]
              /\ mainLog[i].after = (IF i = 1 THEN "idle" ELSE "returned")
              /\ i > 1 => mainLog[i].prev.kind \in {"value", "none"}
        /\ mainLog # <<>> => op = mainLog[Len(mainLog)].op
        /\ mainLog = <<>> => sent = <<>> /\ pc = "idle"

C17_Witness ==
    /\ caller = "main"
    /\ Len(mainLog) = Len(MainSteps)
    /\ op = "balance_treasury"
    /\ pc = "returned"

====
